---- MODULE Spec2Model ----
(***************************************************************************)
(* The social post checker: a React component (SocialPostCheckerTool)      *)
(* whose textarea handler stores the typed text and calls analyzePost, a   *)
(* lodash-debounced scoring pass wrapped in useCallback.  The repository   *)
(* holds three revisions of the component:                                 *)
(*   "basic"   part_001 lines 1-188   fixed English word lists             *)
(*   "toolkit" part_001 lines 189-407 language detection and a linguistic  *)
(*                                    toolkit (franc, langs, compromise)   *)
(*   "lang"    part_002               language selector and keyword tables *)
(*                                                                         *)
(* A text is a sequence of UTF-16 code units, each written as a string: an *)
(* ASCII character as itself, any other code unit by its four hex digits   *)
(* (the police-light emoji is <<"D83D", "DEA8">>), so that Len is the      *)
(* text's JavaScript length.                                               *)
(***************************************************************************)
EXTENDS Integers, Sequences, FiniteSets, TLC

(***************************************************************************)
(* String primitives of the JavaScript runtime, on code-unit sequences.    *)
(***************************************************************************)

\* String.prototype.toLowerCase on the letters A-Z; other units are kept.
LowerOf ==
  [ A |-> "a", B |-> "b", C |-> "c", D |-> "d", E |-> "e", F |-> "f", G |-> "g",
    H |-> "h", I |-> "i", J |-> "j", K |-> "k", L |-> "l", M |-> "m", N |-> "n",
    O |-> "o", P |-> "p", Q |-> "q", R |-> "r", S |-> "s", T |-> "t", U |-> "u",
    V |-> "v", W |-> "w", X |-> "x", Y |-> "y", Z |-> "z" ]

toLowerCaseSkipped(s) == s

toLowerCase(s) ==
  [i \in 1..Len(s) |-> IF s[i] \in DOMAIN LowerOf THEN LowerOf[s[i]] ELSE s[i]]

\* String.prototype.includes: w occurs in s as a contiguous run.
includes(s, w) ==
  \E i \in 0..(Len(s) - Len(w)) : \A j \in 1..Len(w) : s[i + j] = w[j]

\* s begins with w (a regular expression anchored with ^ on a literal).
startsWith(s, w) ==
  /\ Len(s) >= Len(w)
  /\ \A j \in 1..Len(w) : s[j] = w[j]

\* The class \s, and the line terminators that "." does not match.
Whitespace == {" ", "\n", "\t", "\r"}

LineTerminator == {"\n", "\r"}

\* The class [A-Z].
UpperCase == DOMAIN LowerOf

\* The class \w.
WordChar ==
  UpperCase \cup {LowerOf[c] : c \in UpperCase}
            \cup {"0", "1", "2", "3", "4", "5", "6", "7", "8", "9", "_"}

\* postContent.split(/\s+/).filter(Boolean).length: the maximal runs of
\* units that are not whitespace.
wordCount(s) ==
  Cardinality({i \in 1..Len(s) :
                 /\ s[i] \notin Whitespace
                 /\ (i = 1 \/ s[i - 1] \in Whitespace)})

\* postContent.split('\n\n').filter(Boolean).length.  split cuts at each
\* "\n\n" found scanning from the left, so in a run of line feeds the
\* separators are its first and second unit, its third and fourth, and so
\* on; the pieces are the maximal runs of units outside every separator, and
\* filter(Boolean) drops the empty ones.
separatorAt(s, i) ==
  /\ 1 <= i /\ i < Len(s)
  /\ s[i] = "\n" /\ s[i + 1] = "\n"
  /\ LET feeds == {r \in 1..i : \A k \in r..i : s[k] = "\n"}
     IN  Cardinality(feeds) % 2 = 1

inSeparator(s, i) == separatorAt(s, i) \/ separatorAt(s, i - 1)

paragraphs(s) ==
  Cardinality({i \in 1..Len(s) :
                 /\ ~inSeparator(s, i)
                 /\ (i = 1 \/ inSeparator(s, i - 1))})

(***************************************************************************)
(* Static tables of the component.                                         *)
(***************************************************************************)

platformMaxLengths ==
  [ twitter |-> 280, facebook |-> 63206, instagram |-> 2200, linkedin |-> 3000 ]

languageKeywords ==
  [ en |->
    [ attention |-> <<
        <<"w", "o", "w">>,
        <<"a", "m", "a", "z", "i", "n", "g">>,
        <<"e", "x", "c", "l", "u", "s", "i", "v", "e">>,
        <<"b", "r", "e", "a", "k", "i", "n", "g">>,
        <<"u", "r", "g", "e", "n", "t">> >>,
      interest |-> <<
        <<"w", "h", "y">>,
        <<"h", "o", "w">>,
        <<"w", "h", "a", "t", " ", "i", "f">>,
        <<"i", "m", "a", "g", "i", "n", "e">>,
        <<"d", "i", "s", "c", "o", "v", "e", "r">>,
        <<"c", "u", "r", "i", "o", "u", "s">> >>,
      desire |-> <<
        <<"l", "i", "m", "i", "t", "e", "d">>,
        <<"s", "p", "e", "c", "i", "a", "l">>,
        <<"u", "n", "i", "q", "u", "e">>,
        <<"n", "e", "w">>,
        <<"i", "m", "p", "r", "o", "v", "e", "d">>,
        <<"b", "e", "s", "t">> >>,
      action |-> <<
        <<"c", "l", "i", "c", "k">>,
        <<"b", "u", "y">>,
        <<"s", "u", "b", "s", "c", "r", "i", "b", "e">>,
        <<"s", "i", "g", "n", " ", "u", "p">>,
        <<"l", "e", "a", "r", "n", " ", "m", "o", "r", "e">>,
        <<"v", "i", "s", "i", "t">>,
        <<"t", "r", "y">> >> ],
    nl |->
    [ attention |-> <<
        <<"w", "o", "w">>,
        <<"v", "e", "r", "b", "a", "z", "i", "n", "g", "w", "e", "k", "k", "e", "n", "d">>,
        <<"e", "x", "c", "l", "u", "s", "i", "e", "f">>,
        <<"b", "r", "e", "a", "k", "i", "n", "g">>,
        <<"d", "r", "i", "n", "g", "e", "n", "d">> >>,
      interest |-> <<
        <<"w", "a", "a", "r", "o", "m">>,
        <<"h", "o", "e">>,
        <<"w", "a", "t", " ", "a", "l", "s">>,
        <<"s", "t", "e", "l", " ", "j", "e", " ", "v", "o", "o", "r">>,
        <<"o", "n", "t", "d", "e", "k">>,
        <<"n", "i", "e", "u", "w", "s", "g", "i", "e", "r", "i", "g">> >>,
      desire |-> <<
        <<"b", "e", "p", "e", "r", "k", "t">>,
        <<"s", "p", "e", "c", "i", "a", "a", "l">>,
        <<"u", "n", "i", "e", "k">>,
        <<"n", "i", "e", "u", "w">>,
        <<"v", "e", "r", "b", "e", "t", "e", "r", "d">>,
        <<"b", "e", "s", "t", "e">> >>,
      action |-> <<
        <<"k", "l", "i", "k">>,
        <<"k", "o", "o", "p">>,
        <<"a", "b", "o", "n", "n", "e", "e", "r">>,
        <<"m", "e", "l", "d", " ", "j", "e", " ", "a", "a", "n">>,
        <<"l", "e", "e", "r", " ", "m", "e", "e", "r">>,
        <<"b", "e", "z", "o", "e", "k">>,
        <<"p", "r", "o", "b", "e", "e", "r">> >> ] ]

\* The word lists of the "basic" revision.
interestingWords == <<
  <<"w", "h", "y">>,
  <<"h", "o", "w">>,
  <<"w", "h", "a", "t", " ", "i", "f">>,
  <<"i", "m", "a", "g", "i", "n", "e">>,
  <<"d", "i", "s", "c", "o", "v", "e", "r">> >>

desireWords == <<
  <<"e", "x", "c", "l", "u", "s", "i", "v", "e">>,
  <<"l", "i", "m", "i", "t", "e", "d">>,
  <<"s", "p", "e", "c", "i", "a", "l">>,
  <<"u", "n", "i", "q", "u", "e">>,
  <<"n", "e", "w">> >>

actionWords == <<
  <<"c", "l", "i", "c", "k">>,
  <<"b", "u", "y">>,
  <<"s", "u", "b", "s", "c", "r", "i", "b", "e">>,
  <<"s", "i", "g", "n", " ", "u", "p">>,
  <<"l", "e", "a", "r", "n", " ", "m", "o", "r", "e">>,
  <<"v", "i", "s", "i", "t">> >>

\* The alternatives of /^(...)/ in the first attention rule.
attentionEmoji ==
  { <<"D83D", "DEA8">>, <<"D83D", "DCA5">>, <<"D83C", "DF89">>,
    <<"D83D", "DCE2">>, <<"2757", "FE0F">> }

(***************************************************************************)
(* The scoring pass.  A closure c = [postContent, platform, language] is   *)
(* what the callback captured at the render that created it; acc holds the *)
(* pass's local variables.                                                 *)
(***************************************************************************)

Item(type, message) == [type |-> type, message |-> message]

Push(acc, item) == [acc EXCEPT !.feedbackItems = Append(@, item)]

\* let feedbackItems = []; let attention = 0, ...; let engagement = 0;
LocalsFromState(shown) ==
  [ feedbackItems |-> <<>>,
    attention |-> shown.attention, interest |-> shown.interest,
    desire |-> shown.desire, action |-> shown.action,
    engagement |-> shown.engagement ]

Locals(shown) ==
  [ feedbackItems |-> <<>>,
    attention |-> 0, interest |-> 0, desire |-> 0, action |-> 0,
    engagement |-> 0 ]

\* "Check post length".  charCount > maxLength * 0.9 is decided in integers:
\* 0.9 * maxLength is exact in binary64 for 280, 2200 and 3000, and for 63206
\* no integer lies between 56885.4 and its binary64 neighbour.
LengthRuleBonusOnWarning(acc, c) ==
  LET charCount == Len(c.postContent)
      maxLength == platformMaxLengths[c.platform]
  IN  IF charCount > maxLength
        THEN Push(acc, Item("error", <<"Post is too long for", c.platform, maxLength>>))
        ELSE Push([acc EXCEPT !.engagement = @ + 10],
                  IF charCount * 10 > maxLength * 9
                    THEN Item("warning", <<"Post is close to character limit of", c.platform>>)
                    ELSE Item("success", <<"Post length is good for", c.platform>>))

LengthRule(acc, c) ==
  LET charCount == Len(c.postContent)
      maxLength == platformMaxLengths[c.platform]
  IN  IF charCount > maxLength
        THEN Push(acc, Item("error", <<"Post is too long for", c.platform, maxLength>>))
        ELSE IF charCount * 10 > maxLength * 9
          THEN Push(acc, Item("warning", <<"Post is close to character limit of", c.platform>>))
          ELSE Push([acc EXCEPT !.engagement = @ + 10],
                    Item("success", <<"Post length is good for", c.platform>>))

\* "Check paragraph structure" and "Check for condensed content" ("lang").
\* wordCount / paragraphs.length is NaN for 0 / 0 and NaN > 50 is false.
ParagraphRule(acc, c) ==
  LET words == wordCount(c.postContent)
      paras == paragraphs(c.postContent)
      a1 == IF paras = 1 /\ words > 30
              THEN Push(acc, Item("warning", <<"Consider breaking your content into paragraphs">>))
              ELSE IF paras > 1
                THEN Push([acc EXCEPT !.engagement = @ + 5],
                          Item("success", <<"Good use of paragraphs">>))
                ELSE acc
  IN  IF paras > 0 /\ words > 50 * paras
        THEN Push(a1, Item("warning", <<"Your paragraphs seem long">>))
        ELSE a1

\* "Attention": three tests in source order; the third reads the total the
\* first two have left.
AttentionRulesStar(acc, c) ==
  LET s  == c.postContent
      a1 == IF \E e \in attentionEmoji : startsWith(s, e)
              THEN Push([acc EXCEPT !.attention = @ + 25],
                        Item("success", <<"Great use of attention-grabbing emoji at the start">>))
              ELSE acc
      a2 == IF Len(s) = 0 \/ s[1] \in (UpperCase \cup Whitespace \cup {"!", "?"})
              THEN Push([a1 EXCEPT !.attention = @ + 20],
                        Item("success", <<"Strong opening with capital letters or punctuation">>))
              ELSE a1
  IN  IF (\E i \in 1..Len(s) : s[i] \in {"?", "!"}) /\ a2.attention < 45
        THEN Push([a2 EXCEPT !.attention = @ + 15],
                  Item("success", <<"Good use of question or exclamation marks">>))
        ELSE a2

AttentionRulesMarksFirst(acc, c) ==
  LET s  == c.postContent
      a1 == IF (\E i \in 1..Len(s) : s[i] \in {"?", "!"}) /\ acc.attention < 45
              THEN Push([acc EXCEPT !.attention = @ + 15],
                        Item("success", <<"Good use of question or exclamation marks">>))
              ELSE acc
      a2 == IF \E e \in attentionEmoji : startsWith(s, e)
              THEN Push([a1 EXCEPT !.attention = @ + 25],
                        Item("success", <<"Great use of attention-grabbing emoji at the start">>))
              ELSE a1
  IN  IF Len(s) > 0 /\ s[1] \in (UpperCase \cup Whitespace \cup {"!", "?"})
        THEN Push([a2 EXCEPT !.attention = @ + 20],
                  Item("success", <<"Strong opening with capital letters or punctuation">>))
        ELSE a2

AttentionRulesWideOpening(acc, c) ==
  LET s  == c.postContent
      a1 == IF \E e \in attentionEmoji : startsWith(s, e)
              THEN Push([acc EXCEPT !.attention = @ + 25],
                        Item("success", <<"Great use of attention-grabbing emoji at the start">>))
              ELSE acc
      a2 == IF Len(s) > 0 /\ s[1] \notin {LowerOf[u] : u \in UpperCase}
              THEN Push([a1 EXCEPT !.attention = @ + 20],
                        Item("success", <<"Strong opening with capital letters or punctuation">>))
              ELSE a1
  IN  IF (\E i \in 1..Len(s) : s[i] \in {"?", "!"}) /\ a2.attention < 45
        THEN Push([a2 EXCEPT !.attention = @ + 15],
                  Item("success", <<"Good use of question or exclamation marks">>))
        ELSE a2

AttentionRules(acc, c) ==
  LET s  == c.postContent
      a1 == IF \E e \in attentionEmoji : startsWith(s, e)
              THEN Push([acc EXCEPT !.attention = @ + 25],
                        Item("success", <<"Great use of attention-grabbing emoji at the start">>))
              ELSE acc
      a2 == IF Len(s) > 0 /\ s[1] \in (UpperCase \cup Whitespace \cup {"!", "?"})
              THEN Push([a1 EXCEPT !.attention = @ + 20],
                        Item("success", <<"Strong opening with capital letters or punctuation">>))
              ELSE a1
  IN  IF (\E i \in 1..Len(s) : s[i] \in {"?", "!"}) /\ a2.attention < 45
        THEN Push([a2 EXCEPT !.attention = @ + 15],
                  Item("success", <<"Good use of question or exclamation marks">>))
        ELSE a2

\* The switch(category) of the keyword scan.
CategoryDelta(category) == IF category = "action" THEN 15 ELSE 10

\* words.forEach(word => ...) of the "lang" revision, from the k-th word on.
RECURSIVE forEachWord(_, _, _, _, _)
forEachWord(acc, s, category, words, k) ==
  IF k > Len(words)
    THEN acc
    ELSE LET word == words[k]
             hit  == includes(toLowerCase(s), toLowerCase(word))
             a1   == IF hit
                       THEN Push([acc EXCEPT ![category] = @ + CategoryDelta(category)],
                                 Item("success", <<"Good use of the building word", category, word>>))
                       ELSE acc
         IN  forEachWord(a1, s, category, words, k + 1)

\* Object.entries(keywords).forEach(...): the categories in insertion order.
KeywordRulesFirstCategory(acc, c) ==
  LET keywords == languageKeywords[c.language]
      a1 == forEachWord(acc, c.postContent, "attention", keywords.attention, 1)
      a2 == IF a1 # acc THEN a1
            ELSE forEachWord(a1, c.postContent, "interest", keywords.interest, 1)
      a3 == IF a2 # acc THEN a2
            ELSE forEachWord(a2, c.postContent, "desire", keywords.desire, 1)
  IN  IF a3 # acc THEN a3
      ELSE forEachWord(a3, c.postContent, "action", keywords.action, 1)

KeywordRules(acc, c) ==
  LET keywords == languageKeywords[c.language]
      a1 == forEachWord(acc, c.postContent, "attention", keywords.attention, 1)
      a2 == forEachWord(a1, c.postContent, "interest", keywords.interest, 1)
      a3 == forEachWord(a2, c.postContent, "desire", keywords.desire, 1)
  IN  forEachWord(a3, c.postContent, "action", keywords.action, 1)

\* The three forEach loops of the "basic" revision ("Interest", "Desire",
\* "Action"): the text is lowered, the word taken as listed.
RECURSIVE forEachListed(_, _, _, _, _)
forEachListed(acc, s, category, words, k) ==
  IF k > Len(words)
    THEN acc
    ELSE LET word == words[k]
             a1   == IF includes(toLowerCase(s), word)
                       THEN Push([acc EXCEPT ![category] = @ + CategoryDelta(category)],
                                 Item("success", <<"Good use of the word", category, word>>))
                       ELSE acc
         IN  forEachListed(a1, s, category, words, k + 1)

WordListRules(acc, c) ==
  LET a1 == forEachListed(acc, c.postContent, "interest", interestingWords, 1)
      a2 == forEachListed(a1, c.postContent, "desire", desireWords, 1)
  IN  forEachListed(a2, c.postContent, "action", actionWords, 1)

\* w occurs in s at position i.
matchAt(s, i, w) ==
  /\ i + Len(w) - 1 <= Len(s)
  /\ \A j \in 1..Len(w) : s[i + j - 1] = w[j]

\* /\[.*?\]/ : a "[" and a later "]" with no line terminator between them.
hasBrackets(s) ==
  \E i \in {x \in 1..Len(s) : s[x] = "["} :
    \E j \in (i + 1)..Len(s) :
      /\ s[j] = "]"
      /\ \A k \in (i + 1)..(j - 1) : s[k] \notin LineTerminator

\* /https?:\/\/\S+/
hasUrl(s) ==
  \E i \in {x \in 1..Len(s) : s[x] = "h"} :
    \/ /\ matchAt(s, i, <<"h", "t", "t", "p", ":", "/", "/">>)
       /\ i + 7 <= Len(s) /\ s[i + 7] \notin Whitespace
    \/ /\ matchAt(s, i, <<"h", "t", "t", "p", "s", ":", "/", "/">>)
       /\ i + 8 <= Len(s) /\ s[i + 8] \notin Whitespace

\* /#\w+/g and /@\w+/g of the "toolkit" revision: the matches' start places.
tagMatches(s, sign) ==
  {i \in 1..Len(s) : s[i] = sign /\ i < Len(s) /\ s[i + 1] \in WordChar}

UrlRule(acc, c) ==
  IF hasUrl(c.postContent)
    THEN Push([acc EXCEPT !.engagement = @ + 5],
              Item("success", <<"Including a link can drive traffic and engagement">>))
    ELSE acc

\* "Engagement factors" ("basic" and "lang").
EngagementFactorsPerOccurrence(acc, c) ==
  LET s  == c.postContent
      n  == Cardinality({i \in 1..Len(s) : s[i] = "#"})
      a1 == IF hasBrackets(s)
              THEN Push([acc EXCEPT !.engagement = @ + 15],
                        Item("success", <<"Good use of brackets">>))
              ELSE acc
      a2 == IF includes(s, <<"#">>)
              THEN Push([a1 EXCEPT !.engagement = @ + 10 * n],
                        Item("success", <<"Hashtags can increase engagement and discoverability">>))
              ELSE a1
      a3 == IF includes(s, <<"@">>)
              THEN Push([a2 EXCEPT !.engagement = @ + 10],
                        Item("success", <<"Mentioning others can boost engagement and reach">>))
              ELSE a2
  IN  UrlRule(a3, c)

EngagementFactorsElseIf(acc, c) ==
  LET s == c.postContent
  IN  IF hasBrackets(s)
        THEN Push([acc EXCEPT !.engagement = @ + 15],
                  Item("success", <<"Good use of brackets">>))
        ELSE IF includes(s, <<"#">>)
          THEN Push([acc EXCEPT !.engagement = @ + 10],
                    Item("success", <<"Hashtags can increase engagement and discoverability">>))
          ELSE IF includes(s, <<"@">>)
            THEN Push([acc EXCEPT !.engagement = @ + 10],
                      Item("success", <<"Mentioning others can boost engagement and reach">>))
            ELSE UrlRule(acc, c)

EngagementFactors(acc, c) ==
  LET s  == c.postContent
      a1 == IF hasBrackets(s)
              THEN Push([acc EXCEPT !.engagement = @ + 15],
                        Item("success", <<"Good use of brackets">>))
              ELSE acc
      a2 == IF includes(s, <<"#">>)
              THEN Push([a1 EXCEPT !.engagement = @ + 10],
                        Item("success", <<"Hashtags can increase engagement and discoverability">>))
              ELSE a1
      a3 == IF includes(s, <<"@">>)
              THEN Push([a2 EXCEPT !.engagement = @ + 10],
                        Item("success", <<"Mentioning others can boost engagement and reach">>))
              ELSE a2
  IN  UrlRule(a3, c)

\* "Check for hashtags and mentions" and "Check for URLs" ("toolkit").
TagRules(acc, c) ==
  LET s  == c.postContent
      a1 == IF tagMatches(s, "#") # {}
              THEN Push([acc EXCEPT !.engagement = @ + 10],
                        Item("success", <<"Hashtags can increase engagement and discoverability">>))
              ELSE acc
      a2 == IF tagMatches(s, "@") # {}
              THEN Push([a1 EXCEPT !.engagement = @ + 10],
                        Item("success", <<"Mentioning others can boost engagement and reach">>))
              ELSE a1
  IN  UrlRule(a2, c)

Min(a, b) == IF a < b THEN a ELSE b

\* "Cap scores at 100".
CapScoresActionMissed(acc) ==
  [acc EXCEPT !.attention = Min(@, 100), !.interest = Min(@, 100),
              !.desire = Min(@, 100), !.engagement = Min(@, 100)]

CapScores(acc) ==
  [acc EXCEPT !.attention = Min(@, 100), !.interest = Min(@, 100),
              !.desire = Min(@, 100), !.action = Min(@, 100),
              !.engagement = Min(@, 100)]

\* "Overall AIDA feedback".
NeedsAttention == Item("error", <<"Your post needs a stronger attention-grabbing element">>)

NeedsInterest == Item("error", <<"Try to make your post more interesting or intriguing">>)

NeedsDesire == Item("error", <<"Increase the desirability of your offer or content">>)

NeedsAction == Item("error", <<"Include a clearer call-to-action in your post">>)

OverallFeedbackAtMost30(acc) ==
  LET a1 == IF acc.attention <= 30 THEN Push(acc, NeedsAttention) ELSE acc
      a2 == IF acc.interest <= 30 THEN Push(a1, NeedsInterest) ELSE a1
      a3 == IF acc.desire <= 30 THEN Push(a2, NeedsDesire) ELSE a2
  IN  IF acc.action <= 30 THEN Push(a3, NeedsAction) ELSE a3

OverallFeedback(acc) ==
  LET a1 == IF acc.attention < 30 THEN Push(acc, NeedsAttention) ELSE acc
      a2 == IF acc.interest < 30 THEN Push(a1, NeedsInterest) ELSE a1
      a3 == IF acc.desire < 30 THEN Push(a2, NeedsDesire) ELSE a2
  IN  IF acc.action < 30 THEN Push(a3, NeedsAction) ELSE a3

(***************************************************************************)
(* The "toolkit" revision.  franc, langs and compromise are libraries, not *)
(* code of the repository: what they answer for a text is an input of the  *)
(* pass, the record doc:                                                   *)
(*   franc        franc(text), an ISO 639-3 code or "und"                  *)
(*   wordCount    doc.wordCount()                                          *)
(*   sentences    doc.sentences().out('array').length                      *)
(*   sentiment    doc.sentiment() in tenths                                *)
(*   questions, imperatives, superlatives, topics   lengths of the arrays  *)
(*   termChars    the sum of the lengths of doc.terms().out('array')       *)
(***************************************************************************)

\* langs.where("3", code): the language's name, for the codes langs lists.
langsWhere3 == [ nld |-> "Dutch", eng |-> "English", fra |-> "French", deu |-> "German" ]

\* The two-letter code of a listed language (its "1" entry in langs).
langsCode1 == [ nld |-> "nl", eng |-> "en", fra |-> "fr", deu |-> "de" ]

detectLanguageAsDetected(code) ==
  IF code \in DOMAIN langsWhere3 THEN langsCode1[code] ELSE "en"

detectLanguage(code) ==
  IF code \in DOMAIN langsWhere3
    THEN (IF langsWhere3[code] = "Dutch" THEN "nl" ELSE "en")
    ELSE "en"

\* "Check sentence structure".
SentenceRule(acc, doc) ==
  IF doc.sentences = 1 /\ doc.wordCount > 30
    THEN Push(acc, Item("warning", <<"Consider breaking your content into multiple sentences">>))
    ELSE IF doc.sentences > 1
      THEN Push([acc EXCEPT !.engagement = @ + 5],
                Item("success", <<"Good use of multiple sentences">>))
      ELSE acc

\* "Analyze sentiment" up to "Check for named entities".
FeatureRules(acc, doc) ==
  LET a1 == IF doc.sentiment > 5
              THEN Push([acc EXCEPT !.attention = @ + 20],
                        Item("success", <<"Your post has a positive tone">>))
              ELSE IF doc.sentiment < -5
                THEN Push([acc EXCEPT !.attention = @ + 15],
                          Item("info", <<"Your post has a negative tone">>))
                ELSE acc
      a2 == IF doc.questions > 0
              THEN Push([a1 EXCEPT !.interest = @ + 20],
                        Item("success", <<"Good use of questions to generate interest">>))
              ELSE a1
      a3 == IF doc.imperatives > 0
              THEN Push([a2 EXCEPT !.action = @ + 25],
                        Item("success", <<"Strong call-to-action with imperative sentences">>))
              ELSE a2
      a4 == IF doc.superlatives > 0
              THEN Push([a3 EXCEPT !.desire = @ + 20],
                        Item("success", <<"Good use of superlatives to create desire">>))
              ELSE a3
  IN  IF doc.topics > 0
        THEN Push([a4 EXCEPT !.interest = @ + 15, !.engagement = @ + 10],
                  Item("success", <<"Mentioning specific entities can increase interest and engagement">>))
        ELSE a4

\* "Analyze readability": avgWordLength = termChars / wordCount is NaN for
\* 0 / 0 (NaN > 6 is false) and Infinity for a positive sum over 0.
ReadabilityRule(acc, doc) ==
  LET long == IF doc.wordCount = 0
                THEN doc.termChars > 0
                ELSE doc.termChars > 6 * doc.wordCount
  IN  IF long
        THEN Push(acc, Item("warning", <<"Your post contains many long words">>))
        ELSE Push([acc EXCEPT !.engagement = @ + 5],
                  Item("success", <<"Good use of concise language for readability">>))

(***************************************************************************)
(* analyzePost: the body of the debounced callback of each revision, on    *)
(* the closure c, with the component's displayed scores shown and (for the *)
(* "toolkit" revision) the libraries' answers doc.  The result records the *)
(* locals after the stages the properties speak of:                        *)
(*   length         after the length rule                                  *)
(*   beforeWords    before the word lists (the toolkit's feature rules)    *)
(*   beforeMarkers  before the hashtag / mention / link rules              *)
(*   markers        after them                                             *)
(*   raw            before "Cap scores at 100"                             *)
(*   result         what the pass hands to setAidaScore, setEngagementScore*)
(*                  and setFeedback                                        *)
(*   language       what it hands to setLanguage ("toolkit"), else "keep"  *)
(***************************************************************************)

\* The rules between the length rule and the word lists: "Attention"
\* ("basic"), the paragraph rules and "Attention" ("lang"), "Check sentence
\* structure" ("toolkit").
OpeningRules(revision, acc, c, doc) ==
  CASE revision = "basic" -> AttentionRules(acc, c)
    [] revision = "lang" -> AttentionRules(ParagraphRule(acc, c), c)
    [] revision = "toolkit" -> SentenceRule(acc, doc)

\* The word lists ("basic"), the keyword tables ("lang"), the toolkit's
\* feature rules ("toolkit").
WordRules(revision, acc, c, doc) ==
  CASE revision = "basic" -> WordListRules(acc, c)
    [] revision = "lang" -> KeywordRules(acc, c)
    [] revision = "toolkit" -> FeatureRules(acc, doc)

\* The hashtag, mention and link rules.
MarkerRules(revision, acc, c) ==
  IF revision = "toolkit" THEN TagRules(acc, c) ELSE EngagementFactors(acc, c)

\* What follows the link rule before the cap.
ClosingRules(revision, acc, doc) ==
  IF revision = "toolkit" THEN ReadabilityRule(acc, doc) ELSE acc

analyzePost(revision, c, shown, doc) ==
  LET a0 == Locals(shown)
      a1 == LengthRule(a0, c)
      a2 == OpeningRules(revision, a1, c, doc)
      pre == WordRules(revision, a2, c, doc)
      post == MarkerRules(revision, pre, c)
      raw == ClosingRules(revision, post, doc)
  IN  [ length |-> a1, beforeWords |-> a2, beforeMarkers |-> pre, markers |-> post, raw |-> raw,
        result |-> OverallFeedback(CapScores(raw)),
        language |-> IF revision = "toolkit" THEN detectLanguage(doc.franc) ELSE "keep" ]

(***************************************************************************)
(* Inputs: the texts a user types or pastes, and the libraries' answers.   *)
(***************************************************************************)

\* click buy
ClickBuy == <<"c", "l", "i", "c", "k", " ", "b", "u", "y">>

\* CLICK buy
ClickBuyCaps == <<"C", "L", "I", "C", "K", " ", "b", "u", "y">>

\* #tag @me http://x.y
Tagged == <<"#", "t", "a", "g", " ", "@", "m", "e", " ", "h", "t", "t", "p", ":", "/", "/", "x", ".", "y">>

\* [a] #b #c @d @e http://f https://g
Marked == <<"[", "a", "]", " ", "#", "b", " ", "#", "c", " ", "@", "d", " ", "@", "e", " ", "h", "t", "t", "p", ":", "/", "/", "f", " ", "h", "t", "t", "p", "s", ":", "/", "/", "g">>

\* click buy subscribe sign up learn more visit try
AllActions == <<"c", "l", "i", "c", "k", " ", "b", "u", "y", " ", "s", "u", "b", "s", "c", "r", "i", "b", "e", " ", "s", "i", "g", "n", " ", "u", "p", " ", "l", "e", "a", "r", "n", " ", "m", "o", "r", "e", " ", "v", "i", "s", "i", "t", " ", "t", "r", "y">>

\* 🚨 wow sale!
Alert == <<"D83D", "DEA8", " ", "w", "o", "w", " ", "s", "a", "l", "e", "!">>

\* WOW! what if?
Shout == <<"W", "O", "W", "!", " ", "w", "h", "a", "t", " ", "i", "f", "?">>

\* hi\n\nbye
TwoParagraphs == <<"h", "i", "\n", "\n", "b", "y", "e">>

\* KLIK hier, ontdek hoe
Dutch == <<"K", "L", "I", "K", " ", "h", "i", "e", "r", ",", " ", "o", "n", "t", "d", "e", "k", " ", "h", "o", "e">>

\* [new] visit @shop
Bracketed == <<"[", "n", "e", "w", "]", " ", "v", "i", "s", "i", "t", " ", "@", "s", "h", "o", "p">>

\* #topic
Topic == <<"#", "t", "o", "p", "i", "c">>

\* (heavy exclamation mark emoji, U+2757 U+FE0F) now
Heavy == <<"2757", "FE0F", " ", "n", "o", "w">>

\* nieuwsgierig klik klik
Nieuwsgierig ==
  <<"n", "i", "e", "u", "w", "s", "g", "i", "e", "r", "i", "g", " ", "k", "l", "i", "k",
    " ", "k", "l", "i", "k">>

\* n filler characters.
Pad(n) == [i \in 1..n |-> "."]

\* n one-letter words in one paragraph.
Words(n) == [i \in 1..(2 * n - 1) |-> IF i % 2 = 1 THEN "a" ELSE " "]

Texts ==
  { <<>>, ClickBuy, ClickBuyCaps, Tagged, Marked, AllActions, Alert, Shout,
    TwoParagraphs, Dutch, Bracketed, Heavy, Nieuwsgierig, Words(51), Pad(100), Pad(250), Pad(270), Pad(281) }

\* The texts typed where the timing of the keystrokes is what matters.
TypedTexts == { <<>>, ClickBuy, Tagged }

Platforms == DOMAIN platformMaxLengths

\* The options of the language selector.
Languages == {"en", "nl"}

Revisions == {"basic", "toolkit", "lang"}

EmptyDoc ==
  [ franc |-> "und", wordCount |-> 0, sentences |-> 0, sentiment |-> 0,
    questions |-> 0, imperatives |-> 0, superlatives |-> 0, topics |-> 0,
    termChars |-> 0 ]

Docs ==
  { [ franc |-> "eng", wordCount |-> 5, sentences |-> 2, sentiment |-> 8,
      questions |-> 1, imperatives |-> 1, superlatives |-> 1, topics |-> 1,
      termChars |-> 20 ],
    [ franc |-> "nld", wordCount |-> 31, sentences |-> 1, sentiment |-> -8,
      questions |-> 0, imperatives |-> 0, superlatives |-> 0, topics |-> 0,
      termChars |-> 250 ],
    [ franc |-> "fra", wordCount |-> 3, sentences |-> 1, sentiment |-> 2,
      questions |-> 0, imperatives |-> 1, superlatives |-> 0, topics |-> 0,
      termChars |-> 12 ],
    [ franc |-> "und", wordCount |-> 1, sentences |-> 1, sentiment |-> 0,
      questions |-> 0, imperatives |-> 0, superlatives |-> 0, topics |-> 0,
      termChars |-> 3 ] }

\* What the libraries may answer for a text: the empty document for the
\* empty text; only the "toolkit" revision asks.
Answers(revision, text) ==
  IF revision = "toolkit" /\ text # <<>> THEN Docs ELSE {EmptyDoc}

\* Keystrokes and selector changes in one behaviour.
MaxEvents == 3

\* debounce(..., 500)
Wait == 500

\* The step of the clock.
Tick == Wait \div 2

(***************************************************************************)
(* The component.                                                          *)
(***************************************************************************)

VARIABLES
  revision,         \* which revision of the component runs
  postContent,      \* useState('')
  platform,         \* useState('twitter')
  language,         \* useState('en')
  aidaScore,        \* useState({attention: 0, interest: 0, desire: 0, action: 0})
  engagementScore,  \* useState(0)
  feedback,         \* useState([])
  callback,         \* the debounced function useCallback holds: its closure
                    \* and the time left on its timer (-1: no timer)
  detached,         \* debounced functions of earlier renders whose timer runs
  idle,             \* time since the last keystroke, up to Wait
  keys,             \* keystrokes so far
  selects,          \* selector changes so far
  burst,            \* the keystrokes of the current burst and the passes run since it began
  passes            \* every pass run so far: closure, doc and stages

vars ==
  << revision, postContent, platform, language, aidaScore, engagementScore,
     feedback, callback, detached, idle, keys, selects, burst, passes >>

Closure(text, p, l) == [postContent |-> text, platform |-> p, language |-> l]

\* debounce(fn, 500): a new debounced function, no timer running.
Debounced(c) == [closure |-> c, wait |-> -1]

\* The dependency array of useCallback.
Deps(c) ==
  IF revision = "lang"
    THEN <<c.postContent, c.platform, c.language>>
    ELSE <<c.postContent, c.platform>>

\* A call of the debounced function (lodash, trailing edge): the timer is
\* started, or started again if it runs.
Call(fn) == [fn EXCEPT !.wait = Wait]

\* A render with the state c: useCallback keeps the function it holds while
\* the dependencies are those of the render that made it, and otherwise takes
\* the function debounce has just made; the one it held lives on while its
\* timer runs.
Render(fn, c) ==
  IF Deps(fn.closure) = Deps(c)
    THEN /\ callback' = fn
         /\ detached' = detached
    ELSE /\ callback' = Debounced(c)
         /\ detached' = IF fn.wait >= 0 THEN Append(detached, fn) ELSE detached

Shown == [ attention |-> aidaScore.attention, interest |-> aidaScore.interest,
           desire |-> aidaScore.desire, action |-> aidaScore.action,
           engagement |-> engagementScore ]

TimerDue == callback.wait = 0 \/ \E i \in 1..Len(detached) : detached[i].wait = 0

TimerRuns == callback.wait >= 0 \/ detached # <<>>

Init ==
  /\ revision \in Revisions
  /\ postContent = <<>>
  /\ platform = "twitter"
  /\ language = "en"
  /\ aidaScore = [attention |-> 0, interest |-> 0, desire |-> 0, action |-> 0]
  /\ engagementScore = 0
  /\ feedback = <<>>
  /\ callback = Debounced(Closure(<<>>, "twitter", "en"))
  /\ detached = <<>>
  /\ idle = Wait
  /\ keys = 0
  /\ selects = 0
  /\ burst = [keys |-> 0, passes |-> 0]
  /\ passes = <<>>

\* onChange of the textarea: setPostContent(e.target.value); analyzePost();
\* and the render that follows.  The event fires when the value changes.
OnChange(v) ==
  /\ ~TimerDue
  /\ keys + selects < MaxEvents
  /\ v # postContent
  /\ postContent' = v
  /\ Render(Call(callback), Closure(v, platform, language))
  /\ idle' = 0
  /\ keys' = keys + 1
  /\ burst' = IF idle < Wait /\ burst.keys > 0
                THEN [burst EXCEPT !.keys = @ + 1]
                ELSE [keys |-> 1, passes |-> 0]
  /\ UNCHANGED << revision, platform, language, aidaScore, engagementScore,
                  feedback, selects, passes >>

\* onChange of the platform selector: setPlatform(e.target.value).
SelectPlatform(p) ==
  /\ ~TimerDue
  /\ keys + selects < MaxEvents
  /\ p # platform
  /\ platform' = p
  /\ Render(callback, Closure(postContent, p, language))
  /\ selects' = selects + 1
  /\ UNCHANGED << revision, postContent, language, aidaScore, engagementScore,
                  feedback, idle, keys, burst, passes >>

\* onChange of the language selector ("lang"): setLanguage(e.target.value).
SelectLanguage(l) ==
  /\ revision = "lang"
  /\ ~TimerDue
  /\ keys + selects < MaxEvents
  /\ l # language
  /\ language' = l
  /\ Render(callback, Closure(postContent, platform, l))
  /\ selects' = selects + 1
  /\ UNCHANGED << revision, postContent, platform, aidaScore, engagementScore,
                  feedback, idle, keys, burst, passes >>

\* Time passes; a timer that is due fires first.
Elapse(fn) == IF fn.wait > 0 THEN [fn EXCEPT !.wait = @ - Tick] ELSE fn

Clock ==
  /\ ~TimerDue
  /\ TimerRuns \/ idle < Wait
  /\ callback' = Elapse(callback)
  /\ detached' = [i \in 1..Len(detached) |-> Elapse(detached[i])]
  /\ idle' = Min(idle + Tick, Wait)
  /\ UNCHANGED << revision, postContent, platform, language, aidaScore,
                  engagementScore, feedback, keys, selects, burst, passes >>

\* The timer of a debounced function fires: the pass runs on the function's
\* closure and stores its results; the renders that follow find the
\* dependencies unchanged.
TimerFire ==
  /\ TimerDue
  /\ LET old == detached # <<>> /\ Head(detached).wait = 0
         fn  == IF old THEN Head(detached) ELSE callback
     IN  \E doc \in Answers(revision, fn.closure.postContent) :
           LET run == analyzePost(revision, fn.closure, Shown, doc)
               l   == IF run.language = "keep" THEN language ELSE run.language
           IN  /\ language' = l
               /\ aidaScore' = [ attention |-> run.result.attention,
                                 interest |-> run.result.interest,
                                 desire |-> run.result.desire,
                                 action |-> run.result.action ]
               /\ engagementScore' = run.result.engagement
               /\ feedback' = run.result.feedbackItems
               /\ passes' = Append(passes, [closure |-> fn.closure, doc |-> doc, run |-> run])
               /\ IF old
                    THEN /\ detached' = Tail(detached)
                         /\ callback' = callback
                    ELSE /\ detached' = detached
                         /\ callback' = [callback EXCEPT !.wait = -1]
  /\ burst' = [burst EXCEPT !.passes = @ + 1]
  /\ UNCHANGED << revision, postContent, platform, idle, keys, selects >>

Next ==
  \/ \E v \in TypedTexts : OnChange(v)
  \/ \E p \in Platforms : SelectPlatform(p)
  \/ \E l \in Languages : SelectLanguage(l)
  \/ Clock
  \/ TimerFire

Spec == Init /\ [][Next]_vars

(***************************************************************************)
(* The pass on every text of Texts.  InitPass is the component one         *)
(* keystroke after it held the text t with platform p and language l       *)
(* selected, no time having passed since it was constructed: for t = ""    *)
(* the user made the selections and pressed a key; otherwise the user      *)
(* pasted t, made the selections and pressed a key, so that the timer of   *)
(* the function of the first render runs as well.  NextPass lets the       *)
(* timers run out and fire.                                                *)
(***************************************************************************)

InitPass ==
  /\ revision \in Revisions
  /\ platform \in Platforms
  /\ language \in (IF revision = "lang" THEN Languages ELSE {"en"})
  /\ selects = (IF platform = "twitter" THEN 0 ELSE 1) + (IF language = "en" THEN 0 ELSE 1)
  /\ \E t \in Texts :
       LET held == [closure |-> Closure(t, platform, language), wait |-> Wait]
           first == [closure |-> Closure(<<>>, "twitter", "en"), wait |-> Wait]
       IN  /\ postContent = Append(t, ".")
           /\ callback = Debounced(Closure(Append(t, "."), platform, language))
           /\ detached = IF t = <<>> THEN <<held>> ELSE <<first, held>>
           /\ keys = IF t = <<>> THEN 1 ELSE 2
  /\ aidaScore = [attention |-> 0, interest |-> 0, desire |-> 0, action |-> 0]
  /\ engagementScore = 0
  /\ feedback = <<>>
  /\ passes = <<>>
  /\ idle = 0
  /\ burst = [keys |-> keys, passes |-> 0]

NextPass == Clock \/ TimerFire

SpecPass == InitPass /\ [][NextPass]_vars

(***************************************************************************)
(* Properties.  A pass is an entry of passes: its closure, the libraries'  *)
(* answers and the stages of its run.                                      *)
(***************************************************************************)

HasRun == passes # <<>>

Last == passes[Len(passes)]

Dimensions == {"attention", "interest", "desire", "action", "engagement"}

Zero == [attention |-> 0, interest |-> 0, desire |-> 0, action |-> 0, engagement |-> 0]

\* The items a stage appended: those of after beyond those of before.
Appended(before, after) ==
  SubSeq(after.feedbackItems, Len(before.feedbackItems) + 1, Len(after.feedbackItems))

\* How many items of the sequence carry the message text.
Count(items, text) == Cardinality({i \in DOMAIN items : items[i].message[1] = text})

\* C1: each of the five final scores a pass writes is an integer in 0..100.
C1_ScoresInRange ==
  /\ \A i \in DOMAIN passes :
       \A d \in Dimensions : passes[i].run.result[d] \in 0..100
  /\ \A d \in Dimensions : Shown[d] \in 0..100

\* A pass whose action total passed 100 before the cap wrote 100.
C1_Witness ==
  /\ HasRun
  /\ Last.run.raw.action > 100
  /\ aidaScore.action = 100

FourErrors == <<NeedsAttention, NeedsInterest, NeedsDesire, NeedsAction>>

LengthMessages ==
  {"Post is too long for", "Post is close to character limit of", "Post length is good for"}

\* C3: the length rule emits exactly one item per pass, by exclusive tiers
\* in priority order: charCount > max an Error and no bonus, else charCount >
\* 0.9 max a Warning and no bonus, else a Success and +10 engagement; on
\* twitter 281 characters give the Error, 270 the Warning, 100 the Success
\* with +10.
C3_LengthTiers ==
  \A i \in DOMAIN passes :
    LET c     == passes[i].closure
        n     == Len(c.postContent)
        max   == platformMaxLengths[c.platform]
        stage == passes[i].run.length
        items == passes[i].run.result.feedbackItems
        item  == stage.feedbackItems[1]
    IN  /\ Len(stage.feedbackItems) = 1
        /\ Cardinality({k \in DOMAIN items : items[k].message[1] \in LengthMessages}) = 1
        /\ items[1] = item
        /\ IF n > max
             THEN item.type = "error" /\ item.message[1] = "Post is too long for"
                  /\ stage.engagement = 0
             ELSE IF 10 * n > 9 * max
               THEN item.type = "warning" /\ stage.engagement = 0
               ELSE item.type = "success" /\ stage.engagement = 10
        /\ (c.platform = "twitter" /\ n = 281) => item.type = "error"
        /\ (c.platform = "twitter" /\ n = 270) => item.type = "warning"
        /\ (c.platform = "twitter" /\ n = 100) =>
              item.type = "success" /\ passes[i].run.result.engagement >= 10

\* A pass on 270 characters for twitter gave the Warning.
C3_Witness ==
  /\ HasRun
  /\ Last.closure.platform = "twitter"
  /\ Len(Last.closure.postContent) = 270
  /\ feedback[1].type = "warning"

NoHash(s) == \A i \in 1..Len(s) : s[i] # "#"

\* The pass of the same revision on c's text with #topic appended.  (The
\* "toolkit" revision is left out of C4: what the libraries answer for the
\* longer text is not the repository's to decide.)
WithTopic(c) ==
  analyzePost(revision, [c EXCEPT !.postContent = @ \o Topic], Zero, EmptyDoc).result

\* C4 as stated: adding a hashtag to a text without "#" strictly increases
\* the final engagement score (or leaves it at 100) and decreases none of the
\* five final scores.
C4_HashtagIncreases ==
  (HasRun /\ revision # "toolkit" /\ NoHash(Last.closure.postContent))
    => LET a == Last.run.result
           b == WithTopic(Last.closure)
       IN  /\ b.engagement > a.engagement \/ (a.engagement = 100 /\ b.engagement = 100)
           /\ \A d \in Dimensions : b[d] >= a[d]

\* The appended hashtag takes the text out of the good-length tier.
LeavesGoodTier(c) ==
  LET max == platformMaxLengths[c.platform]
  IN  /\ 10 * Len(c.postContent) <= 9 * max
      /\ 10 * (Len(c.postContent) + Len(Topic)) > 9 * max

\* C4 amended: appending a hashtag to a text without "#" decreases none of
\* the five final scores, and strictly increases the final engagement score
\* unless the longer text leaves the good-length tier (charCount <= 0.9 max
\* before, > 0.9 max after).
C4_HashtagNeverDecreases ==
  (HasRun /\ revision # "toolkit" /\ NoHash(Last.closure.postContent))
    => LET a == Last.run.result
           b == WithTopic(Last.closure)
       IN  /\ ~LeavesGoodTier(Last.closure) => b.engagement > a.engagement
           /\ \A d \in Dimensions : b[d] >= a[d]

\* A pass on a text with brackets and a mention and no "#": the hashtag adds
\* to what the other markers gave.
C4_Witness ==
  /\ HasRun /\ revision # "toolkit"
  /\ Last.closure.postContent = Bracketed
  /\ WithTopic(Last.closure).engagement = engagementScore + 10

\* A hashtag or a mention: the sign followed by a word character.
HasTag(s, sign) == \E i \in 1..(Len(s) - 1) : s[i] = sign /\ s[i + 1] \in WordChar

HasSign(s, sign) == \E i \in 1..Len(s) : s[i] = sign

\* An http or https address with something after the slashes.
HasLink(s) ==
  \E i \in 1..Len(s) :
    \E scheme \in { <<"h", "t", "t", "p", ":", "/", "/">>,
                    <<"h", "t", "t", "p", "s", ":", "/", "/">> } :
      /\ matchAt(s, i, scheme)
      /\ i + Len(scheme) <= Len(s)
      /\ s[i + Len(scheme)] \notin Whitespace

MarkerItems(run) == Appended(run.beforeMarkers, run.markers)

MarkerDelta(run) == run.markers.engagement - run.beforeMarkers.engagement

\* C5: each marker type (brackets +15, "#" +10, "@" +10, link +5) fires at
\* most once per pass however often it occurs, each with one Success item,
\* and the contributions add up: a post with a hashtag, a mention and a link
\* gets 10 + 10 + 5 = 25 from the marker rules.
C5_MarkersOnce ==
  \A i \in DOMAIN passes :
    LET s     == passes[i].closure.postContent
        items == MarkerItems(passes[i].run)
        brack == Count(items, "Good use of brackets")
        hash  == Count(items, "Hashtags can increase engagement and discoverability")
        ment  == Count(items, "Mentioning others can boost engagement and reach")
        link  == Count(items, "Including a link can drive traffic and engagement")
    IN  /\ brack <= 1 /\ hash <= 1 /\ ment <= 1 /\ link <= 1
        /\ Len(items) = brack + hash + ment + link
        /\ \A k \in DOMAIN items : items[k].type = "success"
        /\ MarkerDelta(passes[i].run) = 15 * brack + 10 * hash + 10 * ment + 5 * link
        /\ HasTag(s, "#") => hash = 1
        /\ HasTag(s, "@") => ment = 1
        /\ HasLink(s) => link = 1
        /\ ~HasSign(s, "#") => hash = 0
        /\ ~HasSign(s, "@") => ment = 0
        /\ ~HasLink(s) => link = 0
        /\ ~HasSign(s, "[") => brack = 0
        /\ (HasTag(s, "#") /\ HasTag(s, "@") /\ HasLink(s) /\ ~HasSign(s, "["))
              => MarkerDelta(passes[i].run) = 25 /\ Len(items) = 3

\* A pass on a post with a hashtag, a mention and a link gave 25.
C5_Witness ==
  /\ HasRun
  /\ Last.closure.postContent = Tagged
  /\ MarkerDelta(Last.run) = 25
  /\ engagementScore = 35

\* Texts that differ from s only in the case of their letters.
AllLower(s) == [i \in 1..Len(s) |-> IF s[i] \in UpperCase THEN LowerOf[s[i]] ELSE s[i]]

UpperChar(u) ==
  IF \E c \in UpperCase : LowerOf[c] = u
    THEN CHOOSE c \in UpperCase : LowerOf[c] = u
    ELSE u

AllUpper(s) == [i \in 1..Len(s) |-> UpperChar(s[i])]

Alternating(s) ==
  [i \in 1..Len(s) |-> IF i % 2 = 1 THEN AllUpper(s)[i] ELSE AllLower(s)[i]]

CaseVariants(s) == {AllLower(s), AllUpper(s), Alternating(s)}

WordItems(run) == Appended(run.beforeWords, run.beforeMarkers)

WordDelta(run, d) == run.beforeMarkers[d] - run.beforeWords[d]

\* C6: texts that differ only in letter case fire the word rules for the
\* same words and get the same interest, desire and action deltas from them.
\* (The "toolkit" revision has no word lists.)
C6_CaseInsensitive ==
  (HasRun /\ revision # "toolkit")
    => \A v \in CaseVariants(Last.closure.postContent) :
         LET other == analyzePost(revision, [Last.closure EXCEPT !.postContent = v],
                                  Zero, EmptyDoc)
         IN  /\ WordItems(other) = WordItems(Last.run)
             /\ \A d \in {"interest", "desire", "action"} :
                  WordDelta(other, d) = WordDelta(Last.run, d)

\* A pass on "CLICK buy" found both action words.
C6_Witness ==
  /\ HasRun /\ revision # "toolkit"
  /\ Last.closure.postContent = ClickBuyCaps
  /\ WordDelta(Last.run, "action") = 30
  /\ Len(WordItems(Last.run)) = 2

SummaryTexts == {NeedsAttention.message[1], NeedsInterest.message[1],
                 NeedsDesire.message[1], NeedsAction.message[1]}

\* C9: after the cap a pass appends one fixed Error item for each of
\* attention, interest, desire, action whose final value is < 30, none for
\* engagement, after every rule-level item and in that order.
C9_SummaryLast ==
  \A i \in DOMAIN passes :
    LET raw == passes[i].run.raw
        r   == passes[i].run.result
        expected ==
          (IF r.attention < 30 THEN <<NeedsAttention>> ELSE <<>>)
            \o (IF r.interest < 30 THEN <<NeedsInterest>> ELSE <<>>)
            \o (IF r.desire < 30 THEN <<NeedsDesire>> ELSE <<>>)
            \o (IF r.action < 30 THEN <<NeedsAction>> ELSE <<>>)
    IN  /\ r.feedbackItems = raw.feedbackItems \o expected
        /\ \A k \in DOMAIN raw.feedbackItems :
             raw.feedbackItems[k].message[1] \notin SummaryTexts
        /\ \A d \in Dimensions : r[d] = Min(raw[d], 100)

\* A pass whose action score is exactly 30 and whose engagement is below 30
\* appended the three other items only.
C9_Witness ==
  /\ HasRun
  /\ aidaScore.action = 30
  /\ engagementScore < 30
  /\ Appended(Last.run.raw, Last.run.result) = <<NeedsAttention, NeedsInterest, NeedsDesire>>

\* C7: passes run with the same text, platform and language give the same
\* scores and the same feedback, whatever passes ran before them.  (In the
\* "toolkit" revision what the libraries answered for the text counts as
\* part of the input.)
C7_SameInputSameResult ==
  \A i, j \in DOMAIN passes :
    (passes[i].closure = passes[j].closure /\ passes[i].doc = passes[j].doc)
      => passes[i].run.result = passes[j].run.result

\* Two passes ran on the same input with another pass between them, and the
\* later one found other scores displayed than the earlier one.
C7_Witness ==
  \E i, j \in DOMAIN passes :
    /\ i + 1 < j
    /\ passes[i].closure = passes[j].closure
    /\ passes[i].doc = passes[j].doc
    /\ passes[j - 1].run.result.engagement # 0

\* A burst is over: a keystroke has been made, a full interval has passed
\* since the last one and no timer runs.
BurstOver == burst.keys >= 1 /\ idle = Wait /\ ~TimerRuns

\* C8: of a burst of keystrokes, each less than the 500 ms interval after
\* the one before, exactly one pass runs, on the most recent input; the
\* earlier keystrokes trigger none.
C8_OnePassPerBurst ==
  /\ burst.passes <= 1
  /\ BurstOver => /\ burst.passes = 1
                  /\ Last.closure.postContent = postContent

PendingClosures ==
  {callback.closure} \cup {detached[i].closure : i \in DOMAIN detached}

\* C10: the language a pass works with is always en or nl: a detection that
\* fails or names another language resolves to en, so the keyword table has
\* an entry for the language of every pass, run or pending.
C10_LanguageSupported ==
  /\ language \in DOMAIN languageKeywords
  /\ \A c \in PendingClosures : c.language \in DOMAIN languageKeywords
  /\ \A i \in DOMAIN passes :
       /\ passes[i].closure.language \in DOMAIN languageKeywords
       /\ revision = "toolkit" =>
            passes[i].run.language = IF passes[i].doc.franc = "nld" THEN "nl" ELSE "en"

\* A pass of the "toolkit" revision met a text detected as French and left
\* the language en.
C10_Witness ==
  /\ HasRun
  /\ revision = "toolkit"
  /\ Last.doc.franc = "fra"
  /\ language = "en"

EmojiMessage == "Great use of attention-grabbing emoji at the start"

OpeningMessage == "Strong opening with capital letters or punctuation"

MarksMessage == "Good use of question or exclamation marks"

\* The items of the three attention rules, in the order they were pushed.
IsAttentionItem(item) == item.message[1] \in {EmojiMessage, OpeningMessage, MarksMessage}

AttentionItems(run) == SelectSeq(Appended(run.length, run.beforeWords), IsAttentionItem)

AttentionDelta(run) == run.beforeWords.attention - run.length.attention

BeginsWithEmoji(s) == Len(s) >= 2 /\ <<s[1], s[2]>> \in attentionEmoji

BeginsLoud(s) == Len(s) >= 1 /\ s[1] \in UpperCase \cup Whitespace \cup {"!", "?"}

HasMark(s) == \E i \in 1..Len(s) : s[i] = "?" \/ s[i] = "!"

\* C11: the three attention rules run in the order emoji-start (+25),
\* capitals/punctuation-start (+20), contains "?" or "!" (+15); the third
\* fires exactly when the text contains "?" or "!" and the first two have
\* left a total below 45; a text that begins with an alert emoji has final
\* attention >= 25.  (The "toolkit" revision has no such rules.)
C11_AttentionOrder ==
  \A i \in DOMAIN passes :
    revision # "toolkit" =>
      LET s     == passes[i].closure.postContent
          run   == passes[i].run
          early == (IF BeginsWithEmoji(s) THEN 25 ELSE 0) + (IF BeginsLoud(s) THEN 20 ELSE 0)
          third == HasMark(s) /\ early < 45
          expected ==
            (IF BeginsWithEmoji(s) THEN <<EmojiMessage>> ELSE <<>>)
              \o (IF BeginsLoud(s) THEN <<OpeningMessage>> ELSE <<>>)
              \o (IF third THEN <<MarksMessage>> ELSE <<>>)
          items == AttentionItems(run)
      IN  /\ [k \in DOMAIN items |-> items[k].message[1]] = expected
          /\ \A k \in DOMAIN items : items[k].type = "success"
          /\ AttentionDelta(run) = early + (IF third THEN 15 ELSE 0)
          /\ BeginsWithEmoji(s) => run.result.attention >= 25

\* A pass of the "basic" revision on "WOW! what if?": the opening rule, then
\* the marks rule, 35 in all.
C11_Witness ==
  /\ HasRun /\ revision = "basic"
  /\ Last.closure.postContent = Shout
  /\ Len(AttentionItems(Last.run)) = 2
  /\ aidaScore.attention = 35

\* The word w occurs in the text s.
Occurs(w, s) == \E i \in 1..(Len(s) - Len(w) + 1) : SubSeq(s, i, i + Len(w) - 1) = w

\* The lexicon a pass of the revision works with: the keyword table of the
\* closure's language ("lang"), the fixed word lists ("basic").
Lexicon(c) ==
  IF revision = "lang"
    THEN languageKeywords[c.language]
    ELSE [ attention |-> <<>>, interest |-> interestingWords,
           desire |-> desireWords, action |-> actionWords ]

Categories == {"attention", "interest", "desire", "action"}

PerWord == [attention |-> 10, interest |-> 10, desire |-> 10, action |-> 15]

\* The places in a category's list of the words the text holds, case aside.
Matched(c, category) ==
  {k \in DOMAIN Lexicon(c)[category] : Occurs(Lexicon(c)[category][k], AllLower(c.postContent))}

\* C12: every lexicon word that occurs in the text adds its category's delta
\* (attention, interest, desire +10, action +15) once and emits one Success
\* item, so a category's delta is its per-word delta times the number of its
\* matched words, the lexicon items are as many as the matched words, and a
\* match in one category does not suppress one in another.  (The "toolkit"
\* revision has no lexicon.)
C12_LexiconPerWord ==
  \A i \in DOMAIN passes :
    revision # "toolkit" =>
      LET c     == passes[i].closure
          run   == passes[i].run
          items == WordItems(run)
      IN  /\ \A d \in Categories :
                WordDelta(run, d) = PerWord[d] * Cardinality(Matched(c, d))
          /\ WordDelta(run, "engagement") = 0
          /\ Len(items) = Cardinality(Matched(c, "attention")) + Cardinality(Matched(c, "interest"))
                            + Cardinality(Matched(c, "desire")) + Cardinality(Matched(c, "action"))
          /\ \A k \in DOMAIN items : items[k].type = "success"
          /\ {<<items[k].message[2], items[k].message[3]>> : k \in DOMAIN items}
                = UNION {{<<d, Lexicon(c)[d][k]>> : k \in Matched(c, d)} : d \in Categories}

\* A pass with the Dutch table on "nieuwsgierig klik klik": nieuwsgierig
\* (interest) and nieuw (desire) both count, klik counts once.
C12_Witness ==
  /\ HasRun /\ revision = "lang"
  /\ Last.closure.language = "nl"
  /\ Last.closure.postContent = Nieuwsgierig
  /\ WordDelta(Last.run, "interest") = 10
  /\ WordDelta(Last.run, "desire") = 10
  /\ aidaScore.action = 15
  /\ Len(WordItems(Last.run)) = 3

\* The user has typed and stopped: a full interval has passed since the last
\* keystroke and no timer runs.
Settled == keys >= 1 /\ idle = Wait /\ ~TimerRuns

\* What the component displays.
Displayed ==
  [ feedbackItems |-> feedback,
    attention |-> aidaScore.attention, interest |-> aidaScore.interest,
    desire |-> aidaScore.desire, action |-> aidaScore.action,
    engagement |-> engagementScore ]

\* C13: once the user has stopped editing and every timer has fired, the
\* displayed scores and feedback are the result of scoring the text in the
\* textarea with the selected platform (and language).
C13_SettledShowsCurrent ==
  Settled =>
    \E doc \in Answers(revision, postContent) :
      Displayed = analyzePost(revision, Closure(postContent, platform, language),
                              Zero, doc).result

\* C14: the emoji-start rule and the capitals/punctuation-start rule never
\* both fire on one text (no emoji of the first begins with a unit the class
\* of the second holds), so the total before the third attention rule is 0,
\* 20 or 25, the guard attention < 45 never blocks the third rule, and the
\* three rules together give at most 40.  (The "toolkit" revision has no
\* such rules.)
C14_OpeningRulesExclusive ==
  /\ {e[1] : e \in attentionEmoji} \cap (UpperCase \cup Whitespace \cup {"!", "?"}) = {}
  /\ \A i \in DOMAIN passes :
       revision # "toolkit" =>
         LET run     == passes[i].run
             items   == AttentionItems(run)
             emoji   == Count(items, EmojiMessage)
             opening == Count(items, OpeningMessage)
             marks   == Count(items, MarksMessage)
         IN  /\ emoji + opening <= 1
             /\ AttentionDelta(run) - 15 * marks \in {0, 20, 25}
             /\ marks = IF HasMark(passes[i].closure.postContent) THEN 1 ELSE 0
             /\ AttentionDelta(run) <= 40

\* A pass on a text that begins with the alert emoji and holds a "!": the
\* first and the third rule fired, 40 in all.
C14_Witness ==
  /\ HasRun /\ revision # "toolkit"
  /\ Last.closure.postContent = Alert
  /\ Count(AttentionItems(Last.run), EmojiMessage) = 1
  /\ Count(AttentionItems(Last.run), MarksMessage) = 1
  /\ AttentionDelta(Last.run) = 40

====
